---- MODULE Spec2Model ----
(***************************************************************************)
(* MiEspejo backend: an Express process that validates five REST requests  *)
(* and passes each one through to a Supabase row store.                    *)
(*                                                                         *)
(* The model follows the listing that defines all five operations          *)
(* (src/unnamed/part_000).  src/index.js is the same listing without       *)
(* POST /habits; the handlers the two files share are identical.           *)
(*                                                                         *)
(* A handler runs in two steps, as the code does: the synchronous part up  *)
(* to the await of the store call (Receive), and the continuation once the *)
(* store has answered (StoreOk / StoreFail).  Steps of different           *)
(* connections interleave freely.                                          *)
(***************************************************************************)
EXTENDS Integers, Sequences, FiniteSets, TLC

VARIABLES
    env,          \* process.env: SUPABASE_URL, SUPABASE_SERVICE_ROLE_KEY
    pc,           \* position of the start-up script
    exitCode,     \* argument of process.exit, -1 while the process runs
    supabase,     \* the store client, "none" until createClient has run
    habit_types,  \* rows of table habit_types
    habit_logs,   \* rows of table habit_logs
    now,          \* the server clock read by new Date()
    conn          \* per connection: the request being handled and its response

vars == <<env, pc, exitCode, supabase, habit_types, habit_logs, now, conn>>

(***************************************************************************)
(* Bounds of the exploration.                                              *)
(***************************************************************************)
MaxTypes == 1     \* habit_types rows inserted through the API
MaxLogs  == 1     \* habit_logs rows inserted through the API

\* The instants the server clock shows.
ClockValues == 1..2

\* Two connections: the concurrent case of the end-session operation is
\* about two requests in flight at once.
Conns == {"c1", "c2"}

(***************************************************************************)
(* JavaScript / JSON values.                                               *)
(***************************************************************************)
Undef   == [t |-> "undefined"]
Null    == [t |-> "null"]
True    == [t |-> "boolean", v |-> TRUE]
Num(n)  == [t |-> "number", v |-> n]
Str(s)  == [t |-> "string", v |-> s]

\* new Date(clock).toISOString(): a timestamp string, ordered as the clock.
ToISOString(clock) == [t |-> "timestamp", v |-> clock]

\* !v
Falsy(v) == v \in {Undef, Null, Num(0), Str("")}

\* const { k } = obj: an absent property reads as undefined.
Get(obj, k) == IF k \in DOMAIN obj THEN obj[k] ELSE Undef

\* JSON.stringify of an object: properties whose value is undefined are
\* left out.  Request bodies and the payloads handed to the store client
\* both travel as JSON.
Json(obj) == [k \in {j \in DOMAIN obj : obj[j] # Undef} |-> obj[k]]

\* s contains sub
Contains(s, sub) ==
    \E i \in 1..(Len(s) - Len(sub) + 1) : SubSeq(s, i, i + Len(sub) - 1) = sub

(***************************************************************************)
(* Start-up script.                                                        *)
(***************************************************************************)
EnvValues == {Undef, Str(""), Str("set")}

\* Variant: the process exits only when both variables are missing.
EnvMissingBoth(e) == Falsy(e.SUPABASE_URL) /\ Falsy(e.SUPABASE_SERVICE_ROLE_KEY)

\* if (!supabaseUrl || !supabaseKey)
EnvMissing(e) == Falsy(e.SUPABASE_URL) \/ Falsy(e.SUPABASE_SERVICE_ROLE_KEY)

\* The check of the environment: process.exit(1) when a variable is missing.
CheckEnv ==
    /\ pc = "start"
    /\ IF EnvMissing(env)
       THEN pc' = "exited" /\ exitCode' = 1
       ELSE pc' = "checked" /\ UNCHANGED exitCode
    /\ UNCHANGED <<env, supabase, habit_types, habit_logs, now, conn>>

\* const supabase = createClient(supabaseUrl, supabaseKey)
CreateClient ==
    /\ pc = "checked"
    /\ supabase' = [url |-> env.SUPABASE_URL, key |-> env.SUPABASE_SERVICE_ROLE_KEY]
    /\ pc' = "client"
    /\ UNCHANGED <<env, exitCode, habit_types, habit_logs, now, conn>>

\* app.listen(port, ...), after the routes have been registered.
Listen ==
    /\ pc = "client"
    /\ pc' = "listening"
    /\ UNCHANGED <<env, exitCode, supabase, habit_types, habit_logs, now, conn>>

(***************************************************************************)
(* Routing.  A request is [method, path, body]; path is the sequence of    *)
(* segments after splitting at "/", so "/habits/" is <<"habits", "">>.     *)
(***************************************************************************)
Lit(s) == [lit |-> s]
Param(p) == [param |-> p]

\* The routes in registration order.
Routes == <<
    [method |-> "GET",  path |-> <<>>,                                       op |-> "root"],
    [method |-> "GET",  path |-> <<Lit("habits"), Param("userId")>>,         op |-> "list"],
    [method |-> "POST", path |-> <<Lit("habits")>>,                          op |-> "create"],
    [method |-> "POST", path |-> <<Lit("logs"), Lit("event")>>,              op |-> "event"],
    [method |-> "POST", path |-> <<Lit("logs"), Lit("session"), Lit("start")>>, op |-> "start"],
    [method |-> "PUT",  path |-> <<Lit("logs"), Lit("session"), Lit("end")>>,   op |-> "end"] >>

\* Non-strict routing: one trailing slash is optional.
StripSlash(path) ==
    IF Len(path) > 0 /\ path[Len(path)] = ""
    THEN SubSeq(path, 1, Len(path) - 1)
    ELSE path

\* A literal matches itself; a named parameter matches one non-empty segment.
SegMatches(pat, seg) ==
    IF "lit" \in DOMAIN pat THEN seg = pat.lit ELSE seg # ""

RouteMatches(route, req) ==
    LET p == StripSlash(req.path) IN
    /\ route.method = req.method
    /\ Len(route.path) = Len(p)
    /\ \A i \in 1..Len(p) : SegMatches(route.path[i], p[i])

\* The operation of the first matching route, "none" when no route matches.
Dispatch(req) ==
    LET hits == {i \in 1..Len(Routes) : RouteMatches(Routes[i], req)} IN
    IF hits = {} THEN "none"
    ELSE Routes[CHOOSE i \in hits : \A j \in hits : i <= j].op

\* req.params of the matched route.
Params(op, req) ==
    IF op = "list" THEN [userId |-> Str(StripSlash(req.path)[2])]
    ELSE <<>>

(***************************************************************************)
(* The handlers.  in is what the handler destructures from req.params or   *)
(* req.body.                                                               *)
(***************************************************************************)
Input(op, req) ==
    IF op = "list" THEN Params(op, req) ELSE req.body

\* if (!userId)
InvalidList(in) == Falsy(Get(in, "userId"))

\* if (!userId || !nombre || !tipoRegistro)
InvalidCreate(in) ==
    Falsy(Get(in, "userId")) \/ Falsy(Get(in, "nombre")) \/ Falsy(Get(in, "tipoRegistro"))

\* if (!userId || !habitTypeId)
InvalidLog(in) == Falsy(Get(in, "userId")) \/ Falsy(Get(in, "habitTypeId"))

\* Variant: if (!logId || !durationSeconds)
InvalidEndFalsy(in) == Falsy(Get(in, "logId")) \/ Falsy(Get(in, "durationSeconds"))

\* if (!logId || durationSeconds === undefined)
InvalidEnd(in) == Falsy(Get(in, "logId")) \/ Get(in, "durationSeconds") = Undef

\* The condition under which the handler answers 400 and returns.
Invalid(op, in) ==
    CASE op = "list"   -> InvalidList(in)
      [] op = "create" -> InvalidCreate(in)
      [] op = "event"  -> InvalidLog(in)
      [] op = "start"  -> InvalidLog(in)
      [] op = "end"    -> InvalidEnd(in)

\* The error string of the 400 response.
BadRequest(op) ==
    CASE op = "list"   -> "Falta el parámetro userId en la URL."
      [] op = "create" -> "Faltan campos obligatorios: userId, nombre o tipoRegistro."
      [] op = "event"  -> "Faltan userId o habitTypeId en el cuerpo de la petición."
      [] op = "start"  -> "Faltan userId o habitTypeId en el cuerpo de la petición."
      [] op = "end"    -> "Faltan logId o durationSeconds en el cuerpo de la petición."

\* Variant: the select without .eq('is_active', true)
ListCallAll(in) ==
    [kind |-> "select", table |-> "habit_types",
     eq |-> [user_id |-> Get(in, "userId")],
     order |-> "created_at"]

\* supabase.from('habit_types').select('*').eq('user_id', userId)
\*     .eq('is_active', true).order('created_at', { ascending: true })
ListCall(in) ==
    [kind |-> "select", table |-> "habit_types",
     eq |-> [user_id |-> Get(in, "userId"), is_active |-> True],
     order |-> "created_at"]

\* supabase.from('habit_types').insert({ user_id, nombre, tipo_registro, meta_diaria })
CreateCall(in) ==
    [kind |-> "insert", table |-> "habit_types",
     values |-> Json([user_id |-> Get(in, "userId"),
                      nombre |-> Get(in, "nombre"),
                      tipo_registro |-> Get(in, "tipoRegistro"),
                      meta_diaria |-> Get(in, "metaDiaria")])]

\* Variant: the insert also closes the row it creates.
LogCallClosed(in, clock) ==
    [kind |-> "insert", table |-> "habit_logs",
     values |-> Json([user_id |-> Get(in, "userId"),
                      habit_type_id |-> Get(in, "habitTypeId"),
                      fecha_inicio |-> ToISOString(clock),
                      fecha_fin |-> ToISOString(clock),
                      duracion_segundos |-> Num(0)])]

\* supabase.from('habit_logs').insert({ user_id, habit_type_id, fecha_inicio })
\* of /logs/event and, followed by .select('id').single(), of /logs/session/start
LogCall(in, clock) ==
    [kind |-> "insert", table |-> "habit_logs",
     values |-> Json([user_id |-> Get(in, "userId"),
                      habit_type_id |-> Get(in, "habitTypeId"),
                      fecha_inicio |-> ToISOString(clock)])]

\* Variant: the update only touches a session that is still open.
EndCallOpenOnly(in, clock) ==
    [kind |-> "update", table |-> "habit_logs",
     values |-> Json([fecha_fin |-> ToISOString(clock),
                      duracion_segundos |-> Get(in, "durationSeconds"),
                      notas |-> Get(in, "notas")]),
     eq |-> [id |-> Get(in, "logId"), fecha_fin |-> Null]]

\* Variant: the update without .eq('id', logId)
EndCallNoFilter(in, clock) ==
    [kind |-> "update", table |-> "habit_logs",
     values |-> Json([fecha_fin |-> ToISOString(clock),
                      duracion_segundos |-> Get(in, "durationSeconds"),
                      notas |-> Get(in, "notas")]),
     eq |-> <<>>]

\* supabase.from('habit_logs').update({ fecha_fin, duracion_segundos, notas })
\*     .eq('id', logId)
EndCall(in, clock) ==
    [kind |-> "update", table |-> "habit_logs",
     values |-> Json([fecha_fin |-> ToISOString(clock),
                      duracion_segundos |-> Get(in, "durationSeconds"),
                      notas |-> Get(in, "notas")]),
     eq |-> [id |-> Get(in, "logId")]]

\* The store call the handler awaits; the values object reaches the store
\* as JSON.
StoreCall(op, in, clock) ==
    CASE op = "list"   -> ListCall(in)
      [] op = "create" -> CreateCall(in)
      [] op = "event"  -> LogCall(in, clock)
      [] op = "start"  -> LogCall(in, clock)
      [] op = "end"    -> EndCall(in, clock)

\* The prefix of the 500 response's error string.
ErrorPrefix(op) ==
    CASE op = "list"   -> "Error al obtener hábitos: "
      [] op = "create" -> "Error al crear hábito: "
      [] op = "event"  -> "Error al registrar evento: "
      [] op = "start"  -> "Error al iniciar sesión: "
      [] op = "end"    -> "Error al finalizar sesión: "

\* res.status(201) for the three inserts, the default 200 otherwise.
SuccessStatus(op) == IF op \in {"create", "event", "start"} THEN 201 ELSE 200

\* The body of the success response; data is what the store returned.
SuccessBody(op, data) ==
    CASE op = "list"   -> data
      [] op = "create" -> [message |-> "Hábito creado correctamente"]
      [] op = "event"  -> [message |-> "Evento registrado"]
      [] op = "start"  -> [logId |-> data.id]
      [] op = "end"    -> [message |-> "Sesión finalizada correctamente"]

\* No store call, no store error.
None == [t |-> "none"]

\* A response sent before any store call.
Reply(req, op, status, body) ==
    [st |-> "done", req |-> req, op |-> op, call |-> None, calls |-> 0,
     err |-> None, status |-> status, body |-> body]

\* Variant: the catch block answers with a fixed text and drops err.message.
CatchGeneric(c, message) ==
    conn' = [conn EXCEPT ![c] =
                [st |-> "done", req |-> conn[c].req, op |-> conn[c].op,
                 call |-> conn[c].call, calls |-> conn[c].calls,
                 err |-> [message |-> message],
                 status |-> 500,
                 body |-> [error |-> "Error interno del servidor"]]]

\* Variant: the catch block issues the store call again instead of answering.
CatchRetry(c, message) ==
    conn' = [conn EXCEPT ![c].calls = @ + 1]

\* catch (err): the 500 response; err.message is the store's message.
Catch(c, message) ==
    conn' = [conn EXCEPT ![c] =
                [st |-> "done", req |-> conn[c].req, op |-> conn[c].op,
                 call |-> conn[c].call, calls |-> conn[c].calls,
                 err |-> [message |-> message],
                 status |-> 500,
                 body |-> [error |-> ErrorPrefix(conn[c].op) \o message]]]

\* The response after the store call returned without error.
Respond(c, data) ==
    conn' = [conn EXCEPT ![c] =
                [st |-> "done", req |-> conn[c].req, op |-> conn[c].op,
                 call |-> conn[c].call, calls |-> conn[c].calls,
                 err |-> None,
                 status |-> SuccessStatus(conn[c].op),
                 body |-> SuccessBody(conn[c].op, data)]]

\* A request arrives on connection c, the router picks its handler (op) and
\* the handler runs to its first await, or to its response when it sends
\* one before any await.
Receive(c, req, op) ==
    /\ pc = "listening"
    /\ conn[c].st # "await"
    /\ conn' = [conn EXCEPT ![c] =
         CASE op = "none" ->
                Reply(req, op, 404, [text |-> "Cannot " \o req.method])
           [] op = "root" ->
                Reply(req, op, 200, [text |-> "MiEspejo Backend is Active and connected!"])
           [] OTHER ->
                IF Invalid(op, Input(op, req))
                THEN Reply(req, op, 400, [error |-> BadRequest(op)])
                ELSE [st |-> "await", req |-> req, op |-> op,
                      call |-> StoreCall(op, Input(op, req), now), calls |-> 1]]
    /\ UNCHANGED <<env, pc, exitCode, supabase, habit_types, habit_logs, now>>

(***************************************************************************)
(* The row store behind the client: filtered select, insert, update.       *)
(***************************************************************************)
Table(name) == IF name = "habit_types" THEN habit_types ELSE habit_logs

\* .eq(column, value), for every filter of the call
Matches(row, eq) == \A k \in DOMAIN eq : row[k] = eq[k]

\* The columns named in values are written, the others keep what they hold.
Patch(row, values) ==
    [k \in DOMAIN row |-> IF k \in DOMAIN values THEN values[k] ELSE row[k]]

\* The identity column: one more than the largest id of the table.
NextId(rows) ==
    IF rows = {} THEN 1
    ELSE 1 + (CHOOSE n \in {r.id.v : r \in rows} : \A r \in rows : r.id.v <= n)

\* A new row before the inserted values are written: the column defaults.
DefaultRow(name, clock) ==
    IF name = "habit_types"
    THEN [id |-> Num(NextId(habit_types)), user_id |-> Null, nombre |-> Null,
          tipo_registro |-> Null, meta_diaria |-> Null, is_active |-> True,
          created_at |-> ToISOString(clock)]
    ELSE [id |-> Num(NextId(habit_logs)), user_id |-> Null, habit_type_id |-> Null,
          fecha_inicio |-> Null, fecha_fin |-> Null, duracion_segundos |-> Null,
          notas |-> Null]

\* .order(column, { ascending: true }): every arrangement of the rows in
\* which the column never decreases (rows with equal values come in any
\* order).
Ordered(rows, column) ==
    {s \in [1..Cardinality(rows) -> rows] :
        /\ \A i, j \in DOMAIN s : i # j => s[i] # s[j]
        /\ \A i, j \in DOMAIN s : i < j => s[i][column].v <= s[j][column].v}

\* .select('*').eq(...).eq(...).order(...)
Select(call) ==
    Ordered({r \in Table(call.table) : Matches(r, call.eq)}, call.order)

\* .insert(values)
Insert(call, clock) == Patch(DefaultRow(call.table, clock), call.values)

\* .update(values).eq('id', logId)
Update(call) ==
    {IF Matches(r, call.eq) THEN Patch(r, call.values) ELSE r : r \in Table(call.table)}

\* The store carries out the call of connection c without error and the
\* handler resumes after its await.
StoreOk(c) ==
    /\ conn[c].st = "await"
    /\ LET call == conn[c].call IN
       CASE call.kind = "select" ->
              /\ \E data \in Select(call) : Respond(c, data)
              /\ UNCHANGED <<habit_types, habit_logs>>
         [] call.kind = "insert" ->
              LET row == Insert(call, now) IN
              /\ IF call.table = "habit_types"
                 THEN habit_types' = habit_types \cup {row} /\ UNCHANGED habit_logs
                 ELSE habit_logs' = habit_logs \cup {row} /\ UNCHANGED habit_types
              /\ Respond(c, row)
         [] call.kind = "update" ->
              /\ habit_logs' = Update(call)
              /\ UNCHANGED habit_types
              /\ Respond(c, Null)
    /\ UNCHANGED <<env, pc, exitCode, supabase, now>>

\* The store reports an error for the call of connection c (nothing is
\* written) and the handler resumes in its catch block.
StoreMessages == {"JWT expired"}

StoreFail(c, message) ==
    /\ conn[c].st = "await"
    /\ Catch(c, message)
    /\ UNCHANGED <<env, pc, exitCode, supabase, habit_types, habit_logs, now>>

\* Time passes on the server clock.
Tick ==
    /\ now + 1 \in ClockValues
    /\ now' = now + 1
    /\ UNCHANGED <<env, pc, exitCode, supabase, habit_types, habit_logs, conn>>

(***************************************************************************)
(* Initial state and the requests of the environment.                      *)
(***************************************************************************)
\* Rows the store holds before the process starts: a deactivated habit of
\* u1 and an active habit of u2.
SeedTypes == {
    [id |-> Num(1), user_id |-> Str("u1"), nombre |-> Str("Meditar"),
     tipo_registro |-> Str("cronometro"), meta_diaria |-> Null,
     is_active |-> [t |-> "boolean", v |-> FALSE], created_at |-> ToISOString(0)],
    [id |-> Num(2), user_id |-> Str("u2"), nombre |-> Str("Correr"),
     tipo_registro |-> Str("contador"), meta_diaria |-> Num(3),
     is_active |-> True, created_at |-> ToISOString(0)] }

\* A finished session of u2 recorded before the process starts.
SeedLogs == {
    [id |-> Num(1), user_id |-> Str("u2"), habit_type_id |-> Num(2),
     fecha_inicio |-> ToISOString(0), fecha_fin |-> ToISOString(0),
     duracion_segundos |-> Num(60), notas |-> Null] }

Init ==
    /\ env \in [{"SUPABASE_URL", "SUPABASE_SERVICE_ROLE_KEY"} -> EnvValues]
    /\ pc = "start"
    /\ exitCode = -1
    /\ supabase = "none"
    /\ habit_types = SeedTypes
    /\ habit_logs = SeedLogs
    /\ now = 1
    /\ conn = [c \in Conns |-> [st |-> "idle"]]

Request(method, path, fields) ==
    [method |-> method, path |-> path, body |-> Json(fields)]

RootRequests == {Request("GET", <<>>, <<>>)}

ListRequests(users) == {Request("GET", <<"habits", u>>, <<>>) : u \in users}

CreateRequests(users, nombres, tipos, metas) ==
    {Request("POST", <<"habits">>,
             [userId |-> u, nombre |-> n, tipoRegistro |-> t, metaDiaria |-> m]) :
        u \in users, n \in nombres, t \in tipos, m \in metas}

EventRequests(users, habits) ==
    {Request("POST", <<"logs", "event">>, [userId |-> u, habitTypeId |-> h]) :
        u \in users, h \in habits}

StartRequests(users, habits) ==
    {Request("POST", <<"logs", "session", "start">>, [userId |-> u, habitTypeId |-> h]) :
        u \in users, h \in habits}

EndRequests(ids, durations, notes) ==
    {Request("PUT", <<"logs", "session", "end">>,
             [logId |-> l, durationSeconds |-> d, notas |-> n]) :
        l \in ids, d \in durations, n \in notes}

\* Requests of every operation, with required fields present or missing.
AllRequests ==
    RootRequests
    \cup ListRequests({"", "u1"})
    \cup CreateRequests({Undef, Str("u1")}, {Str(""), Str("Leer")}, {Str("contador")}, {Undef})
    \cup EventRequests({Undef, Str("u1")}, {Num(2)})
    \cup StartRequests({Str("u1")}, {Undef, Num(2)})
    \cup EndRequests({Undef, Num(2)}, {Undef, Num(0)}, {Undef})

\* Requests of the two habit-type operations.
TypeRequests ==
    ListRequests({"u1", "u2"})
    \cup CreateRequests({Str("u1"), Str("u2")}, {Str("Leer")},
                        {Undef, Str("contador")}, {Undef, Num(0)})

\* Requests of the three habit-log operations.
LogRequests ==
    EventRequests({Str("u1")}, {Num(2)})
    \cup StartRequests({Str("u1")}, {Num(2)})
    \cup EndRequests({Num(2), Num(3)}, {Null, Num(0)}, {Undef, Str("hecho")})
    \cup EndRequests({Undef}, {Num(0)}, {Undef})
    \cup EndRequests({Num(2)}, {Undef}, {Undef})

\* The number of rows the pending requests are about to insert into a table.
Pending(name) ==
    Cardinality({c \in Conns : /\ conn[c].st = "await"
                               /\ conn[c].call.kind = "insert"
                               /\ conn[c].call.table = name})

\* The exploration stops accepting inserts once the bound of a table is met.
WithinBounds(op) ==
    /\ op = "create" =>
         Cardinality(habit_types) + Pending("habit_types") < Cardinality(SeedTypes) + MaxTypes
    /\ op \in {"event", "start"} =>
         Cardinality(habit_logs) + Pending("habit_logs") < Cardinality(SeedLogs) + MaxLogs

Startup == CheckEnv \/ CreateClient \/ Listen

\* A request of the given set arrives on a connection that has no request
\* in progress.
Accept(requests) ==
    \E req \in requests :
        LET op == Dispatch(req) IN
        WithinBounds(op) /\ \E c \in Conns : Receive(c, req, op)

Reply200 == \E c \in Conns : StoreOk(c)

Reply500 == \E c \in Conns, m \in StoreMessages : StoreFail(c, m)

\* Every operation, the store answering or failing.
Next == Startup \/ Accept(AllRequests) \/ Reply200 \/ Reply500 \/ Tick

Spec == Init /\ [][Next]_vars

\* The two habit-type operations, the store answering or failing.
NextTypes == Startup \/ Accept(TypeRequests) \/ Reply200 \/ Reply500 \/ Tick

SpecTypes == Init /\ [][NextTypes]_vars

\* The three habit-log operations with a store that answers every call.
NextLogs == Startup \/ Accept(LogRequests) \/ Reply200 \/ Tick

SpecLogs == Init /\ [][NextLogs]_vars

(***************************************************************************)
(* Properties.                                                             *)
(***************************************************************************)
Done(c) == conn[c].st = "done"

Awaiting(c) == conn[c].st = "await"

\* The operation a request addresses, read off its method and path.
RequestedOp(req) ==
    CASE req.method = "GET" /\ Len(req.path) = 2 /\ req.path[1] = "habits" -> "list"
      [] req.method = "POST" /\ req.path = <<"habits">> -> "create"
      [] req.method = "POST" /\ req.path = <<"logs", "event">> -> "event"
      [] req.method = "POST" /\ req.path = <<"logs", "session", "start">> -> "start"
      [] req.method = "PUT" /\ req.path = <<"logs", "session", "end">> -> "end"
      [] OTHER -> "root"

RequiredFields(op) ==
    CASE op = "list"   -> {"userId"}
      [] op = "create" -> {"userId", "nombre", "tipoRegistro"}
      [] op = "event"  -> {"userId", "habitTypeId"}
      [] op = "start"  -> {"userId", "habitTypeId"}
      [] op = "end"    -> {"logId", "durationSeconds"}
      [] OTHER         -> {}

\* The required fields a request does not carry: absent, or empty.
MissingFields(req) ==
    LET op == RequestedOp(req)
        in == IF op = "list" THEN [userId |-> Str(req.path[2])] ELSE req.body
    IN {k \in RequiredFields(op) : Get(in, k) \in {Undef, Str("")}}

\* C1 (as claimed): a request of any of the five operations that misses a
\* required field is answered 400 with a non-empty error message naming the
\* missing fields, and no store call is issued for it.
C1_MissingFieldIs400 ==
    \A c \in Conns :
        (Done(c) /\ MissingFields(conn[c].req) # {}) =>
            /\ conn[c].status = 400
            /\ conn[c].calls = 0
            /\ Len(conn[c].body.error) > 0
            /\ \A k \in MissingFields(conn[c].req) : Contains(conn[c].body.error, k)

\* C1, the part the code keeps: the same statement for the four operations
\* that take their fields from the request body.
C1_BodyOperations ==
    \A c \in Conns :
        (Done(c) /\ RequestedOp(conn[c].req) # "list" /\ MissingFields(conn[c].req) # {}) =>
            /\ conn[c].status = 400
            /\ conn[c].calls = 0
            /\ Len(conn[c].body.error) > 0
            /\ \A k \in MissingFields(conn[c].req) : Contains(conn[c].body.error, k)

\* C7 (as claimed): GET /habits/ is answered by the list operation with
\* status 400 and the error "Falta el parámetro userId en la URL.", without
\* a store call.
C7_EmptyUserIdIs400 ==
    \A c \in Conns :
        (Done(c) /\ conn[c].req.method = "GET" /\ conn[c].req.path = <<"habits", "">>) =>
            /\ conn[c].op = "list"
            /\ conn[c].status = 400
            /\ conn[c].body = [error |-> "Falta el parámetro userId en la URL."]
            /\ conn[c].calls = 0

\* C3: when the store reports a failure for a request that passed
\* validation, the response is 500 and its error string is the operation's
\* prefix followed by the store's message; a success status is never sent
\* for a request whose store call failed.
C3_StoreFailureIs500 ==
    /\ \A c \in Conns :
         Done(c) =>
            /\ conn[c].err # None =>
                 /\ conn[c].status = 500
                 /\ conn[c].body = [error |-> ErrorPrefix(conn[c].op) \o conn[c].err.message]
                 /\ Contains(conn[c].body.error, conn[c].err.message)
                 /\ ~Invalid(conn[c].op, Input(conn[c].op, conn[c].req))
            /\ conn[c].status \in {200, 201} => conn[c].err = None
    /\ \A o1, o2 \in {"list", "create", "event", "start", "end"} :
         o1 # o2 => ErrorPrefix(o1) # ErrorPrefix(o2)

C3_Witness ==
    \E c \in Conns : Done(c) /\ conn[c].err # None /\ conn[c].status = 500

\* C6: every request issues at most one store call; a request that passes
\* validation issues exactly one, and a store failure is answered 500 with
\* no second call.
C6_AtMostOneStoreCall ==
    \A c \in Conns :
        /\ Awaiting(c) => conn[c].calls = 1
        /\ Done(c) =>
             /\ conn[c].calls <= 1
             /\ conn[c].calls = 1 <=>
                   /\ conn[c].op \notin {"none", "root"}
                   /\ ~Invalid(conn[c].op, Input(conn[c].op, conn[c].req))
             /\ conn[c].err # None => conn[c].status = 500 /\ conn[c].calls = 1

C6_Witness ==
    \E c, d \in Conns :
        /\ Done(c) /\ conn[c].err # None /\ conn[c].calls = 1
        /\ Done(d) /\ conn[d].status = 201 /\ conn[d].calls = 1

\* C9: with the store URL or the service credential absent, the process
\* exits with a non-zero code before the client is created and before the
\* server listens, and no request is served; the check runs once, at
\* start-up.
C9_State ==
    (Falsy(env.SUPABASE_URL) \/ Falsy(env.SUPABASE_SERVICE_ROLE_KEY)) =>
        /\ pc \in {"start", "exited"}
        /\ pc = "exited" => exitCode # 0 /\ exitCode # -1
        /\ supabase = "none"
        /\ \A c \in Conns : conn[c].st = "idle"

C9_Step ==
    /\ pc # "start" => pc' # "start"
    /\ pc = "exited" => UNCHANGED <<pc, exitCode, supabase, conn, habit_types, habit_logs>>
    /\ exitCode' # exitCode => pc = "start"
    /\ env' = env

C9_MissingConfigHalts == []C9_State /\ [][C9_Step]_vars

C9_Witness ==
    /\ env.SUPABASE_URL = Undef
    /\ env.SUPABASE_SERVICE_ROLE_KEY # Undef
    /\ pc = "exited"
    /\ exitCode = 1

\* Connection c's handler resumes from its await and sends its response.
Completes(c) == Awaiting(c) /\ conn'[c].st = "done"

\* A value as the store holds it: an absent property is stored as NULL.
OrNull(v) == IF v = Undef THEN Null ELSE v

\* C4: once a create-habit-type request of a user has been answered 201, a
\* list of that user's habit types contains a row with the submitted nombre,
\* tipoRegistro and metaDiaria and is_active = true; the list holds only
\* active rows of that user, in ascending created_at order.
C4_Step ==
    \A c \in Conns :
        (Completes(c) /\ conn[c].op = "list" /\ conn'[c].status = 200) =>
            LET u == Str(conn[c].req.path[2])
                rows == conn'[c].body
            IN
            /\ \A d \in Conns :
                 (/\ Done(d) /\ conn[d].op = "create" /\ conn[d].status = 201
                  /\ Get(conn[d].req.body, "userId") = u) =>
                     \E i \in DOMAIN rows :
                        /\ rows[i].nombre = Get(conn[d].req.body, "nombre")
                        /\ rows[i].tipo_registro = Get(conn[d].req.body, "tipoRegistro")
                        /\ rows[i].meta_diaria = OrNull(Get(conn[d].req.body, "metaDiaria"))
                        /\ rows[i].is_active = True
            /\ \A i \in DOMAIN rows : rows[i].user_id = u /\ rows[i].is_active = True
            /\ \A i, j \in DOMAIN rows :
                 i < j => rows[i].created_at.v <= rows[j].created_at.v

C4_CreatedHabitIsListed == [][C4_Step]_vars

C4_Witness ==
    \E c, d \in Conns :
        /\ Done(d) /\ conn[d].op = "create" /\ conn[d].status = 201
        /\ Done(c) /\ conn[c].op = "list" /\ conn[c].status = 200
        /\ Get(conn[d].req.body, "userId") = Str(conn[c].req.path[2])
        /\ Len(conn[c].body) = 2
        /\ conn[c].body[1].created_at.v < conn[c].body[2].created_at.v
        /\ conn[c].body[2].nombre = Get(conn[d].req.body, "nombre")
        /\ conn[c].body[2].meta_diaria = Num(0)

\* C5: the logId a start-session request returned with 201, passed to
\* end-session with durationSeconds = 0 and no notas, is answered 200 and
\* the row with that id holds duracion_segundos = 0; with logId present, an
\* end-session request is rejected with 400 exactly when durationSeconds is
\* absent.
C5_State ==
    \A c \in Conns :
        (Done(c) /\ conn[c].op = "end" /\ ~Falsy(Get(conn[c].req.body, "logId"))) =>
            (conn[c].status = 400 <=> Get(conn[c].req.body, "durationSeconds") = Undef)

C5_Step ==
    \A c, d \in Conns :
        (/\ Done(d) /\ conn[d].op = "start" /\ conn[d].status = 201
         /\ Completes(c) /\ conn[c].op = "end"
         /\ Get(conn[c].req.body, "logId") = conn[d].body.logId
         /\ Get(conn[c].req.body, "durationSeconds") = Num(0)
         /\ "notas" \notin DOMAIN conn[c].req.body) =>
            /\ conn'[c].status = 200
            /\ \E r \in habit_logs' : r.id = conn[d].body.logId
            /\ \A r \in habit_logs' :
                 r.id = conn[d].body.logId => r.duracion_segundos = Num(0)

C5_ZeroDurationEndsSession == []C5_State /\ [][C5_Step]_vars

C5_Witness ==
    \E c, d \in Conns :
        /\ Done(d) /\ conn[d].op = "start" /\ conn[d].status = 201
        /\ Done(c) /\ conn[c].op = "end" /\ conn[c].status = 200
        /\ conn[c].req.body = [logId |-> conn[d].body.logId, durationSeconds |-> Num(0)]
        /\ \E r \in habit_logs :
             /\ r.id = conn[d].body.logId
             /\ r.duracion_segundos = Num(0)
             /\ r.fecha_fin = conn[c].call.values.fecha_fin

\* The row of habit_logs' with the id of r.
After(r) == CHOOSE r2 \in habit_logs' : r2.id = r.id

\* Rows are never deleted and ids never reused.
RowsKept == \A r \in habit_logs : \E r2 \in habit_logs' : r2.id = r.id

\* A row created by this step has fecha_fin and duracion_segundos unset.
InsertedOpen ==
    \A r2 \in habit_logs' :
        (\A r \in habit_logs : r.id # r2.id) =>
            r2.fecha_fin = Null /\ r2.duracion_segundos = Null

\* fecha_fin or duracion_segundos of a row change only when an end-session
\* request for its id completes, and then to that request's values.
WrittenBySessionEnd ==
    \A r \in habit_logs :
        (\/ After(r).fecha_fin # r.fecha_fin
         \/ After(r).duracion_segundos # r.duracion_segundos) =>
            \E c \in Conns :
                /\ Completes(c) /\ conn[c].op = "end" /\ conn'[c].status = 200
                /\ Get(conn[c].req.body, "logId") = r.id
                /\ After(r).fecha_fin = conn[c].call.values.fecha_fin
                /\ After(r).duracion_segundos = Get(conn[c].req.body, "durationSeconds")

\* C2 (as claimed): a row created by an insert has fecha_fin and
\* duracion_segundos unset, the session-end operation for its id sets them,
\* and once set they are never written again.
C2_Original_Step ==
    /\ RowsKept
    /\ InsertedOpen
    /\ WrittenBySessionEnd
    /\ \A r \in habit_logs :
         r.fecha_fin # Null =>
            /\ After(r).fecha_fin = r.fecha_fin
            /\ After(r).duracion_segundos = r.duracion_segundos

C2_PopulatedExactlyOnce == [][C2_Original_Step]_vars

\* C2 (amended): a row created by an insert has fecha_fin and
\* duracion_segundos unset; only an end-session request for its id writes
\* them, each such request that the store applies writes them again, and
\* fecha_fin, once set, stays set.
C2_Amended_Step ==
    /\ RowsKept
    /\ InsertedOpen
    /\ WrittenBySessionEnd
    /\ \A r \in habit_logs : r.fecha_fin # Null => After(r).fecha_fin # Null
    /\ \A c \in Conns :
         (Completes(c) /\ conn[c].op = "end") =>
            \A r \in habit_logs :
                r.id = Get(conn[c].req.body, "logId") =>
                    /\ After(r).fecha_fin = conn[c].call.values.fecha_fin
                    /\ After(r).duracion_segundos = Get(conn[c].req.body, "durationSeconds")

C2_WrittenByEachSessionEnd == [][C2_Amended_Step]_vars

C2_Witness ==
    \E c, d \in Conns, r \in habit_logs :
        /\ c # d
        /\ Done(c) /\ conn[c].op = "end" /\ conn[c].status = 200
        /\ Done(d) /\ conn[d].op = "end" /\ conn[d].status = 200
        /\ Get(conn[c].req.body, "logId") = r.id
        /\ Get(conn[d].req.body, "logId") = r.id
        /\ Get(conn[c].req.body, "durationSeconds") = Num(0)
        /\ Get(conn[d].req.body, "durationSeconds") = Null
        /\ r.duracion_segundos = Null
        /\ r.fecha_fin # Null

\* The update of connection c's end-session request was received strictly
\* before that of d, and d's has been applied while c still awaits the
\* store: the two handlers overlap, and c's update is applied last.
Overlap(c, d) ==
    /\ c # d
    /\ Done(d) /\ conn[d].op = "end" /\ conn[d].status = 200
    /\ Completes(c) /\ conn[c].op = "end"
    /\ Get(conn[c].req.body, "logId") = Get(conn[d].req.body, "logId")
    /\ conn[c].call.values.fecha_fin.v < conn[d].call.values.fecha_fin.v

\* C8 (as claimed): of two end-session requests for one logId handled
\* concurrently, both are answered 200 and the row ends with the fecha_fin,
\* duracion_segundos and notas of the update applied last.
C8_Original_Step ==
    \A c, d \in Conns :
        Overlap(c, d) =>
            /\ conn'[c].status = 200
            /\ conn'[d] = conn[d]
            /\ \A r \in habit_logs :
                 r.id = Get(conn[c].req.body, "logId") =>
                    /\ After(r).fecha_fin = conn[c].call.values.fecha_fin
                    /\ After(r).duracion_segundos = Get(conn[c].req.body, "durationSeconds")
                    /\ After(r).notas = OrNull(Get(conn[c].req.body, "notas"))

C8_LastWriteWins == [][C8_Original_Step]_vars

\* C8 (amended): every end-session update is applied whatever other
\* requests are in flight and is answered 200; the row then holds that
\* update's fecha_fin and duracion_segundos, and its notas when the request
\* carried notas, while a request without notas leaves the stored notas as
\* they were.  A handler's step changes no other connection's state.
C8_Amended_Step ==
    /\ \A c, d \in Conns : (c # d /\ conn'[c] # conn[c]) => conn'[d] = conn[d]
    /\ \A c \in Conns :
         (Completes(c) /\ conn[c].op = "end") =>
            /\ conn'[c].status = 200
            /\ \A r \in habit_logs :
                 r.id = Get(conn[c].req.body, "logId") =>
                    /\ After(r).fecha_fin = conn[c].call.values.fecha_fin
                    /\ After(r).duracion_segundos = Get(conn[c].req.body, "durationSeconds")
                    /\ After(r).notas =
                          IF "notas" \in DOMAIN conn[c].req.body
                          THEN conn[c].req.body.notas
                          ELSE r.notas

C8_LastAppliedUpdateWins == [][C8_Amended_Step]_vars

\* Both requests answered 200, the one received first applied last, the
\* notas those of the other request.
C8_Witness ==
    \E c, d \in Conns, r \in habit_logs :
        /\ Done(c) /\ conn[c].op = "end" /\ conn[c].status = 200
        /\ Done(d) /\ conn[d].op = "end" /\ conn[d].status = 200
        /\ Get(conn[c].req.body, "logId") = r.id
        /\ Get(conn[d].req.body, "logId") = r.id
        /\ conn[c].call.values.fecha_fin.v < conn[d].call.values.fecha_fin.v
        /\ "notas" \notin DOMAIN conn[c].req.body
        /\ "notas" \in DOMAIN conn[d].req.body
        /\ r.fecha_fin = conn[c].call.values.fecha_fin
        /\ r.duracion_segundos = Get(conn[c].req.body, "durationSeconds")
        /\ r.duracion_segundos # Get(conn[d].req.body, "durationSeconds")
        /\ r.notas = conn[d].req.body.notas

\* C10: a completed end-session request leaves habit_types and every
\* habit_logs row with another id unchanged, keeps the id, user_id,
\* habit_type_id and fecha_inicio of the row it targets, and creates or
\* deletes no row; when no row has the logId, the store is unchanged and
\* the response is still 200 with the success message.
C10_Step ==
    \A c \in Conns :
        (Completes(c) /\ conn[c].op = "end") =>
            LET logId == Get(conn[c].req.body, "logId") IN
            /\ habit_types' = habit_types
            /\ {r.id : r \in habit_logs'} = {r.id : r \in habit_logs}
            /\ Cardinality(habit_logs') = Cardinality(habit_logs)
            /\ \A r \in habit_logs :
                 IF r.id = logId
                 THEN /\ After(r).user_id = r.user_id
                      /\ After(r).habit_type_id = r.habit_type_id
                      /\ After(r).fecha_inicio = r.fecha_inicio
                 ELSE r \in habit_logs'
            /\ (\A r \in habit_logs : r.id # logId) =>
                 /\ habit_logs' = habit_logs
                 /\ conn'[c].status = 200
                 /\ conn'[c].body = [message |-> "Sesión finalizada correctamente"]

C10_EndSessionFrame == [][C10_Step]_vars

\* An end-session request for an id no row has, answered 200 with the two
\* existing rows as they were.
C10_Witness ==
    \E c \in Conns :
        /\ Done(c) /\ conn[c].op = "end" /\ conn[c].status = 200
        /\ \A r \in habit_logs : r.id # Get(conn[c].req.body, "logId")
        /\ SeedLogs \subseteq habit_logs
        /\ \E r \in habit_logs : r.id = Num(2) /\ r.fecha_fin = Null

====
